---- MODULE Spec2Model ----
(***************************************************************************)
(* Risk & position-lifecycle engine of trade-oracle.                       *)
(*                                                                         *)
(* The specifications of this module:                                      *)
(*   RiskSpec - RiskManager.approve_trade (backend/api/risk.py) applied to *)
(*              requests drawn from bounded sets;                          *)
(*   Spec     - the position store, the monitor loop                       *)
(*              (backend/monitoring/position_monitor.py) and the close     *)
(*              paths (backend/api/execution.py, backend/api/testing.py);  *)
(*   FairSpec - Spec with the fairness the event loop provides;            *)
(*   EvalSpec - the exit evaluators as functions of their inputs;          *)
(*   GreeksSpec - GreeksCalculator (backend/utils/greeks.py);              *)
(*   StrategySpec - strike selection and order construction of             *)
(*              IronCondorStrategy (backend/strategies/iron_condor.py);    *)
(*   OrderSpec - the order endpoints of backend/api/execution.py.          *)
(*                                                                         *)
(* Money is counted in whole dollars, option prices in cents.  One option  *)
(* contract covers 100 shares, so a price distance of c cents is a risk of *)
(* c dollars per contract.  Win rates are percentages.  Fractions are      *)
(* records [n, d] with d > 0.                                              *)
(***************************************************************************)
EXTENDS Integers, Sequences, FiniteSets, TLC

VARIABLES
    \* ---- RiskSpec ----
    phase,          \* "idle" | "requested" | "decided"
    portfolio,      \* Portfolio of the pending request
    signal,         \* Signal of the pending request
    statsSource,    \* what the trade-history lookup will yield
    decision,       \* RiskApproval returned for the request
    \* ---- Spec ----
    store,          \* rows of the positions table, row i has id i
    tradeCount,     \* rows of the trades table
    clock,          \* wall clock, minutes after midnight (exchange time)
    optionMid,      \* latest quoted price of the traded option, cents
    monitor,        \* monitor task: "sleeping" | "running" | "stopped"
    cancelled,      \* shutdown has cancelled the monitor task
    job,            \* the handler that holds the event loop, if any
    \* ---- EvalSpec ----
    evalCase,       \* arguments and environment of an exit evaluation
    evalResults,    \* what successive calls on evalCase returned
    \* ---- GreeksSpec ----
    greeksIn,       \* (S, K, T, r, sigma) handed to GreeksCalculator
    greeksOut,      \* the Greeks computed for greeksIn
    \* ---- StrategySpec ----
    stratIn,        \* option chain or setup handed to IronCondorStrategy
    stratOut,       \* what the strategy returned for stratIn
    \* ---- OrderSpec ----
    orderReq,       \* the order request being served, with the account
    brokerOrders,   \* orders the broker has accepted, in order
    orderResp       \* OrderResponse returned for orderReq

riskVars == <<phase, portfolio, signal, statsSource, decision>>

lifeVars == <<store, tradeCount, clock, optionMid, monitor, cancelled, job>>

evalVars == <<evalCase, evalResults>>

greekVars == <<greeksIn, greeksOut>>

stratVars == <<stratIn, stratOut>>

orderVars == <<orderReq, brokerOrders, orderResp>>

vars == <<riskVars, lifeVars, evalVars, greekVars, stratVars, orderVars>>

----------------------------------------------------------------------------
(* Bounds of the request domain *)

MaxConsecutive == 4

BalanceValues == {0, 1000, 5000, 10000}
DailyPnlValues == {-400, -300, -299, -150, 0, 100}
WinRateValues == {0, 40, 50, 52, 55, 75}
AvgWinValues == {50, 100}
AvgLossValues == {50, 100}
EntryPriceValues == {0, 200, 1000}
StopLossValues == {100, 200, 500, 1000}

----------------------------------------------------------------------------
(* RiskManager: hardcoded limits *)

MAX_PORTFOLIO_RISK_PCT == 2
MAX_POSITION_SIZE_PCT == 5
DAILY_LOSS_LIMIT_PCT == -3
MAX_CONSECUTIVE_LOSSES == 3
CONTRACT_MULTIPLIER == 100

Abs(x) == IF x < 0 THEN -x ELSE x

\* int(): truncation toward zero of n / d, d # 0
IntTrunc(n, d) ==
    LET q == Abs(n) \div Abs(d)
    IN  IF (n < 0) = (d < 0) THEN q ELSE -q

Frac(n, d) == IF d < 0 THEN [n |-> -n, d |-> -d] ELSE [n |-> n, d |-> d]
FracLE(a, b) == a.n * b.d <= b.n * a.d
FracMin(a, b) == IF FracLE(a, b) THEN a ELSE b

DefaultStats ==
    [win_rate |-> 55, avg_win |-> 100, avg_loss |-> 50, total_trades |-> 0]

\* as if a failed lookup left approve_trade without statistics
GetStrategyStats_unhandled(src) ==
    CASE src.kind = "unconfigured" -> DefaultStats
      [] src.kind = "insufficient" ->
            [win_rate |-> 75, avg_win |-> 120, avg_loss |-> 80, total_trades |-> 0]
      [] src.kind = "error" ->
            [win_rate |-> 0, avg_win |-> 0, avg_loss |-> 0, total_trades |-> 0]
      [] OTHER ->
            [win_rate |-> src.win_rate,
             avg_win |-> IF src.win_rate = 0 THEN 100 ELSE src.avg_win,
             avg_loss |-> IF src.win_rate = 100 THEN 50 ELSE src.avg_loss,
             total_trades |-> 10]

\* get_strategy_stats: research defaults unless ten closed trades exist;
\* an average over no wins (no losses) falls back to 100 (50)
GetStrategyStats(src) ==
    CASE src.kind = "unconfigured" -> DefaultStats
      [] src.kind = "insufficient" ->
            [win_rate |-> 75, avg_win |-> 120, avg_loss |-> 80, total_trades |-> 0]
      [] src.kind = "error" -> DefaultStats
      [] OTHER ->
            [win_rate |-> src.win_rate,
             avg_win |-> IF src.win_rate = 0 THEN 100 ELSE src.avg_win,
             avg_loss |-> IF src.win_rate = 100 THEN 50 ELSE src.avg_loss,
             total_trades |-> 10]

RiskApproval(approved, size, maxLoss, reasoning) ==
    [raised |-> FALSE, approved |-> approved, position_size |-> size,
     max_loss |-> maxLoss, reasoning |-> reasoning]

\* RiskApproval(approved=False, reasoning=...): position_size and max_loss
\* keep the model's defaults 0
Rejected(reasoning) == RiskApproval(FALSE, 0, 0, reasoning)

\* an exception leaving the body of approve_trade
Raised ==
    [raised |-> TRUE, approved |-> FALSE, position_size |-> 0,
     max_loss |-> 0, reasoning |-> "raised"]

DailyLossHit_strict(pf) ==
    ~ FracLE(Frac(DAILY_LOSS_LIMIT_PCT, 100), Frac(pf.daily_pnl, pf.balance))

\* Circuit breaker 1: daily_pnl / balance <= DAILY_LOSS_LIMIT
DailyLossHit(pf) ==
    FracLE(Frac(pf.daily_pnl, pf.balance), Frac(DAILY_LOSS_LIMIT_PCT, 100))

\* Circuit breaker 2
ConsecutiveLossHit(pf) == pf.consecutive_losses >= MAX_CONSECUTIVE_LOSSES

\* kelly_pct = (win_rate * avg_win - loss_rate * avg_loss) / avg_win
KellyPct(st) ==
    Frac(st.win_rate * st.avg_win - (100 - st.win_rate) * st.avg_loss,
         100 * st.avg_win)

KellyHalf_nocap(st) ==
    LET k == KellyPct(st)
    IN  Frac(k.n, 2 * k.d)

\* kelly_half = min(kelly_pct * 0.5, MAX_PORTFOLIO_RISK)
KellyHalf(st) ==
    LET k == KellyPct(st)
    IN  FracMin(Frac(k.n, 2 * k.d), Frac(MAX_PORTFOLIO_RISK_PCT, 100))

NegativeKelly_strict(kh) == kh.n < 0

\* if kelly_half <= 0
NegativeKelly(kh) == kh.n <= 0

\* risk_per_contract = |entry_price - stop_loss| * 100, in dollars
RiskPerContract(sig) ==
    (Abs(sig.entry_price - sig.stop_loss) * CONTRACT_MULTIPLIER) \div 100

\* position_size = int(balance * kelly_half / risk_per_contract)
KellyContracts(pf, kh, rpc) == IntTrunc(pf.balance * kh.n, kh.d * rpc)

\* max_contracts = int(balance * MAX_POSITION_SIZE / (entry_price * 100))
MaxContracts(pf, sig) ==
    IntTrunc(pf.balance * MAX_POSITION_SIZE_PCT,
             100 * ((sig.entry_price * CONTRACT_MULTIPLIER) \div 100))

PositionSize_max(pf, sig, kh, rpc) ==
    LET size == KellyContracts(pf, kh, rpc)
        cap == MaxContracts(pf, sig)
    IN  IF size >= cap THEN size ELSE cap

\* position_size = min(position_size, max_contracts)
PositionSize(pf, sig, kh, rpc) ==
    LET size == KellyContracts(pf, kh, rpc)
        cap == MaxContracts(pf, sig)
    IN  IF size <= cap THEN size ELSE cap

\* the last two checks and the approval
SizeDecision(sig, pf, kh) ==
    LET rpc == RiskPerContract(sig)
    IN  IF rpc = 0
        THEN Rejected("Invalid signal: risk per contract is zero")
        ELSE IF sig.entry_price = 0
        THEN Raised                     \* Decimal division by zero
        ELSE LET size == PositionSize(pf, sig, kh, rpc)
             IN  IF size < 1
                 THEN Rejected("Position size too small")
                 ELSE RiskApproval(TRUE, size, rpc * size, "Kelly sizing")

KellyDecision_zero_risk_first(sig, pf, st) ==
    IF RiskPerContract(sig) = 0
    THEN Rejected("Invalid signal: risk per contract is zero")
    ELSE IF st.avg_win = 0
    THEN Raised
    ELSE LET kh == KellyHalf(st)
         IN  IF NegativeKelly(kh)
             THEN Rejected("Negative Kelly criterion")
             ELSE SizeDecision(sig, pf, kh)

\* Kelly sizing, after both circuit breakers passed
KellyDecision(sig, pf, st) ==
    IF st.avg_win = 0
    THEN Raised                         \* float division by zero
    ELSE LET kh == KellyHalf(st)
         IN  IF NegativeKelly(kh)
             THEN Rejected("Negative Kelly criterion")
             ELSE SizeDecision(sig, pf, kh)

\* body of the try block of approve_trade, checks in source order
ApproveTradeBody(sig, pf, src) ==
    IF pf.balance = 0
    THEN Raised                         \* Decimal division by zero
    ELSE IF DailyLossHit(pf)
    THEN Rejected("Daily loss limit hit")
    ELSE IF ConsecutiveLossHit(pf)
    THEN Rejected("Consecutive loss limit")
    ELSE KellyDecision(sig, pf, GetStrategyStats(src))

ApproveTrade_no_handler(sig, pf, src) == ApproveTradeBody(sig, pf, src)

\* approve_trade: an exception of the body is returned as a rejection
ApproveTrade(sig, pf, src) ==
    LET r == ApproveTradeBody(sig, pf, src)
    IN  IF r.raised THEN Rejected("Error") ELSE r

----------------------------------------------------------------------------
(* Position store, quotes and clock *)

MaxPositions == 2
MaxTrades == 3

ClockValues == {600, 690, 950}
OptionMidValues == {50, 150}

MOMENTUM_FORCE_CLOSE == 690
ORB_FORCE_CLOSE == 900
FINAL_FORCE_CLOSE == 950
DTE_THRESHOLD == 21

NoJob ==
    [owner |-> "none", list |-> <<>>, idx |-> 0, stage |-> "", reason |-> "",
     failed |-> FALSE]

LifeIdle ==
    /\ store = <<>>
    /\ tradeCount = 0
    /\ clock = 600
    /\ optionMid = 50
    /\ monitor = "sleeping"
    /\ cancelled = FALSE
    /\ job = NoJob

----------------------------------------------------------------------------
(* RiskSpec: requests and decisions *)

NoPortfolio == [balance |-> 0, daily_pnl |-> 0, consecutive_losses |-> 0]
NoSignal == [entry_price |-> 0, stop_loss |-> 0]
NoSource == [kind |-> "unconfigured", win_rate |-> 0, avg_win |-> 0, avg_loss |-> 0]
NoDecision == RiskApproval(FALSE, 0, 0, "")

StatsSources ==
    {[kind |-> k, win_rate |-> 0, avg_win |-> 0, avg_loss |-> 0] :
        k \in {"unconfigured", "insufficient", "error"}}
    \cup
    {[kind |-> "computed", win_rate |-> w, avg_win |-> aw, avg_loss |-> al] :
        w \in WinRateValues, aw \in AvgWinValues, al \in AvgLossValues}

RiskIdle ==
    /\ phase = "idle"
    /\ portfolio = NoPortfolio
    /\ signal = NoSignal
    /\ statsSource = NoSource
    /\ decision = NoDecision

\* no evaluation and no Greeks computation outside their own specifications
EvalIdle == evalCase = [kind |-> "none"] /\ evalResults = <<>>
GreeksIdle == greeksIn = [kind |-> "none"] /\ greeksOut = [kind |-> "none"]
StratIdle == stratIn = [kind |-> "none"] /\ stratOut = [kind |-> "none"]
OrderIdle ==
    /\ orderReq = [kind |-> "none"]
    /\ brokerOrders = <<>>
    /\ orderResp = [kind |-> "none"]

RiskInit == RiskIdle /\ LifeIdle /\ EvalIdle /\ GreeksIdle /\ StratIdle /\ OrderIdle

\* POST /api/risk/approve arrives with a signal and a portfolio snapshot
Request ==
    /\ phase = "idle"
    /\ \E b \in BalanceValues, p \in DailyPnlValues, c \in 0..MaxConsecutive :
          portfolio' = [balance |-> b, daily_pnl |-> p, consecutive_losses |-> c]
    /\ \E e \in EntryPriceValues, s \in StopLossValues :
          signal' = [entry_price |-> e, stop_loss |-> s]
    /\ statsSource' \in StatsSources
    /\ decision' = NoDecision
    /\ phase' = "requested"
    /\ UNCHANGED <<lifeVars, evalVars, greekVars, stratVars, orderVars>>

Approve ==
    /\ phase = "requested"
    /\ decision' = ApproveTrade(signal, portfolio, statsSource)
    /\ phase' = "decided"
    /\ UNCHANGED <<portfolio, signal, statsSource>>
    /\ UNCHANGED <<lifeVars, evalVars, greekVars, stratVars, orderVars>>

\* the decision is returned to the caller; the manager keeps no state
Respond ==
    /\ phase = "decided"
    /\ phase' = "idle"
    /\ portfolio' = NoPortfolio
    /\ signal' = NoSignal
    /\ statsSource' = NoSource
    /\ decision' = NoDecision
    /\ UNCHANGED <<lifeVars, evalVars, greekVars, stratVars, orderVars>>

RiskNext == Request \/ Approve \/ Respond

RiskSpec == RiskInit /\ [][RiskNext]_vars

----------------------------------------------------------------------------
(* Properties of approve_trade, checked under RiskSpec *)

Decided == phase = "decided"

\* the request's quantities, written from the request alone
ReqStats == GetStrategyStats(statsSource)
ReqKellyNum ==
    ReqStats.win_rate * ReqStats.avg_win
        - (100 - ReqStats.win_rate) * ReqStats.avg_loss
ReqKellyDen == 100 * ReqStats.avg_win
ReqDailyBreaker ==
    portfolio.balance > 0 /\ 100 * portfolio.daily_pnl <= -3 * portfolio.balance
ReqConsecutiveBreaker == portfolio.consecutive_losses >= 3
ReqRiskDistance == Abs(signal.entry_price - signal.stop_loss)

\* C1: with balance > 0, a portfolio at or beyond -3% daily P&L, or with 3 or
\* more consecutive losses, is never approved, whatever the signal and stats.
C1_CircuitBreakersReject ==
    (Decided /\ portfolio.balance > 0
        /\ (ReqDailyBreaker \/ ReqConsecutiveBreaker))
    => (~ decision.raised /\ ~ decision.approved)

C1_Witness ==
    /\ Decided
    /\ portfolio.balance = 10000 /\ portfolio.daily_pnl = -300
    /\ portfolio.consecutive_losses = 0
    /\ ~ decision.approved

ClaimedFraction ==
    IF 100 * ReqKellyNum <= 2 * (2 * ReqKellyDen)
    THEN [n |-> ReqKellyNum, d |-> 2 * ReqKellyDen]
    ELSE [n |-> 2, d |-> 100]
ClaimedSize ==
    LET byRisk == (portfolio.balance * ClaimedFraction.n)
                      \div (ClaimedFraction.d * ReqRiskDistance)
        byValue == (portfolio.balance * 5) \div (100 * signal.entry_price)
    IN  IF byRisk <= byValue THEN byRisk ELSE byValue

IsExample(entry, stop) ==
    /\ Decided
    /\ portfolio = [balance |-> 10000, daily_pnl |-> 0, consecutive_losses |-> 0]
    /\ ReqStats.win_rate = 55 /\ ReqStats.avg_win = 100 /\ ReqStats.avg_loss = 50
    /\ signal = [entry_price |-> entry, stop_loss |-> stop]

FirstFailingCheck ==
    IF ReqDailyBreaker THEN "Daily loss limit hit"
    ELSE IF ReqConsecutiveBreaker THEN "Consecutive loss limit"
    ELSE IF ReqKellyNum <= 0 THEN "Negative Kelly criterion"
    ELSE IF ReqRiskDistance = 0 THEN "Invalid signal: risk per contract is zero"
    ELSE IF ClaimedSize < 1 THEN "Position size too small"
    ELSE "Kelly sizing"

\* no check divides by zero: the balance is not 0, and the entry price is
\* not 0 when the size check is reached
ArithmeticDefined ==
    /\ portfolio.balance > 0
    /\ \/ signal.entry_price > 0
       \/ ReqDailyBreaker \/ ReqConsecutiveBreaker
       \/ ReqKellyNum <= 0 \/ ReqRiskDistance = 0

\* C4: the decision carries the reason of the first failing check in the
\* order daily loss, consecutive losses, negative Kelly, zero risk, size < 1
\* (for requests on which no check divides by zero).
C4_CheckOrder ==
    (Decided /\ ArithmeticDefined) => decision.reasoning = FirstFailingCheck

C4_Witness ==
    /\ Decided
    /\ portfolio.balance > 0 /\ ~ ReqDailyBreaker /\ ~ ReqConsecutiveBreaker
    /\ ReqKellyNum <= 0 /\ ReqRiskDistance = 0 /\ signal.entry_price > 0
    /\ decision.reasoning = "Negative Kelly criterion"

\* C5: when both breakers pass and kelly <= 0 (kelly = 0 included), the
\* request is rejected with the negative-Kelly reason, for every signal.
C5_NegativeEdge ==
    (Decided /\ portfolio.balance > 0 /\ ~ ReqDailyBreaker
        /\ ~ ReqConsecutiveBreaker /\ ReqKellyNum <= 0)
    => /\ ~ decision.approved
       /\ decision.reasoning = "Negative Kelly criterion"

C5_Witness ==
    /\ Decided
    /\ portfolio.balance > 0 /\ ~ ReqDailyBreaker /\ ~ ReqConsecutiveBreaker
    /\ ReqKellyNum = 0
    /\ decision.reasoning = "Negative Kelly criterion"

ReqInvalid ==
    \/ ReqRiskDistance = 0
    \/ portfolio.balance = 0
    \/ signal.entry_price = 0

\* C6: approve_trade always returns a decision, never an exception; for a
\* zero risk distance, a zero balance or a zero entry price the decision is a
\* rejection with position size 0 and max loss 0.
C6_NeverRaises ==
    Decided
    => /\ ~ decision.raised
       /\ ReqInvalid
          => /\ ~ decision.approved
             /\ decision.position_size = 0
             /\ decision.max_loss = 0

C6_Witness ==
    /\ Decided
    /\ portfolio.balance = 0
    /\ decision.reasoning = "Error"

----------------------------------------------------------------------------
(* Positions *)

\* legs stored with an iron condor (strikes in dollars, symbols abbreviated)
CondorLegs ==
    << [symbol |-> "SPY_C600", side |-> "sell", option_type |-> "call",
        strike |-> 600, quantity |-> 1],
       [symbol |-> "SPY_C605", side |-> "buy", option_type |-> "call",
        strike |-> 605, quantity |-> 1],
       [symbol |-> "SPY_P580", side |-> "sell", option_type |-> "put",
        strike |-> 580, quantity |-> 1],
       [symbol |-> "SPY_P575", side |-> "buy", option_type |-> "put",
        strike |-> 575, quantity |-> 1] >>

\* what the execution paths can open: place_limit_order opens a long (BUY)
\* or short (SELL) single-leg position under the signal's strategy name,
\* place_multi_leg_order a "spread" under a representative symbol
SingleLegKinds ==
    { [symbol |-> "SPY_OPT", strategy |-> "IV Mean Reversion", position_type |-> "long",
        entry_price |-> 100],
      [symbol |-> "SPY_OPT", strategy |-> "IV Mean Reversion", position_type |-> "short",
        entry_price |-> 100],
      [symbol |-> "SPY", strategy |-> "0DTE Momentum Scalping", position_type |-> "long",
        entry_price |-> 100],
      [symbol |-> "SPY_OPT", strategy |-> "OPENING_RANGE_BREAKOUT", position_type |-> "long",
        entry_price |-> 100] }

\* row inserted by create_position
NewRow(kind) ==
    [symbol |-> kind.symbol, strategy |-> kind.strategy,
     position_type |-> kind.position_type, quantity |-> 1,
     entry_price |-> kind.entry_price, current_price |-> kind.entry_price,
     status |-> "open", exit_reason |-> "", exit_trade_id |-> 0,
     closed_at |-> 0, legs |-> <<>>]

\* row inserted by create_multi_leg_position
NewMultiLegRow ==
    [symbol |-> "iron_condor_SPY", strategy |-> "iron_condor",
     position_type |-> "spread", quantity |-> 1,
     entry_price |-> 100, current_price |-> 100,
     status |-> "open", exit_reason |-> "", exit_trade_id |-> 0,
     closed_at |-> 0, legs |-> CondorLegs]

\* Position(...) built from a row by get_open_positions: the legs column is
\* not passed on, so the model default None stays
PositionFromRow(id, row) ==
    [id |-> id, symbol |-> row.symbol, strategy |-> row.strategy,
     position_type |-> row.position_type, quantity |-> row.quantity,
     entry_price |-> row.entry_price, current_price |-> row.current_price,
     status |-> row.status, legs |-> <<>>]

RECURSIVE RowsToPositions(_, _, _)
RowsToPositions(rows, i, onlyOpen) ==
    IF i > Len(rows) THEN <<>>
    ELSE IF onlyOpen => rows[i].status = "open"
         THEN <<PositionFromRow(i, rows[i])>> \o RowsToPositions(rows, i + 1, onlyOpen)
         ELSE RowsToPositions(rows, i + 1, onlyOpen)

GetOpenPositions_unfiltered(rows, ok) ==
    IF ok THEN RowsToPositions(rows, 1, FALSE) ELSE <<>>

\* get_open_positions: select * where status = 'open'; [] on any error
GetOpenPositions(rows, ok) ==
    IF ok THEN RowsToPositions(rows, 1, TRUE) ELSE <<>>

\* log_trade_to_supabase: the new trade id, or None (0)
LogTrade(count, ok) == IF ok /\ count < MaxTrades THEN count + 1 ELSE 0
TradesAfter(count, id) == IF id # 0 THEN id ELSE count

\* update_position_status: writes status and the truthy optional fields
UpdatePositionStatus(rows, id, status, tradeId, closedAt, exitReason, ok) ==
    IF ok
    THEN [rows EXCEPT ![id] =
            [@ EXCEPT !.status = status,
                      !.exit_trade_id = IF tradeId # 0 THEN tradeId ELSE @,
                      !.closed_at = IF closedAt # 0 THEN closedAt ELSE @,
                      !.exit_reason = IF exitReason # "" THEN exitReason ELSE @]]
    ELSE rows

----------------------------------------------------------------------------
(* Quotes *)

\* symbols the option_ticks table can hold a row for; the representative
\* symbol of a multi-leg position is not one of them
QuotedSymbols ==
    {"SPY_OPT", "SPY_D21", "SPY_D22", "SPY",
     "SPY_C600", "SPY_C605", "SPY_P580", "SPY_P575",
     "SPY_C612", "SPY_C617", "SPY_P560", "SPY_P555"}
AllSymbols == QuotedSymbols \cup {"iron_condor_SPY"}

\* the answers of get_latest_tick at one moment: the mid price of the
\* latest row of a symbol, None (0) without a row or on error
Quotes(avail, mid) ==
    [s \in AllSymbols |->
        IF s \notin avail \cap QuotedSymbols THEN 0
        ELSE IF s = "SPY" THEN 59000 ELSE mid]         \* SPY at 590.00

\* the underlying of an option symbol: the text before its first digit
Underlying(symbol) == "SPY"

\* (parse_option_symbol(...)['expiration'] - now).days, the whole days left
\* until the expiration date; -1000 when the symbol does not parse
DaysToExpiry(symbol) ==
    CASE symbol = "SPY_OPT" -> 44
      [] symbol = "SPY_D22" -> 22
      [] symbol = "SPY_D21" -> 21
      [] OTHER -> -1000

\* is_earnings_blackout: a stub
IsEarningsBlackout(symbol) == FALSE

----------------------------------------------------------------------------
(* Exit evaluators *)

\* as if the expiry rule came before the profit and stop rules
CheckExitConditions_dte_first(position, quotes) ==
    LET tick == quotes[position.symbol]
        entry == position.entry_price
        diff == IF position.position_type = "long"
                THEN tick - entry ELSE entry - tick
    IN  IF tick = 0 THEN ""
        ELSE IF entry = 0 THEN ""
        ELSE IF DaysToExpiry(position.symbol) # -1000
                /\ DaysToExpiry(position.symbol) <= DTE_THRESHOLD
        THEN "21 DTE threshold reached"
        ELSE IF FracLE(Frac(1, 2), Frac(diff, entry))
        THEN "50% profit target reached"
        ELSE IF FracLE(Frac(diff, entry), Frac(-3, 4))
        THEN "75% stop loss hit"
        ELSE ""

\* check_exit_conditions: single-leg default
CheckExitConditions(position, quotes) ==
    LET tick == quotes[position.symbol]
        entry == position.entry_price
        diff == IF position.position_type = "long"
                THEN tick - entry ELSE entry - tick
    IN  IF tick = 0 THEN ""
        ELSE IF entry = 0 THEN ""               \* division by zero, caught
        ELSE IF FracLE(Frac(1, 2), Frac(diff, entry))
        THEN "50% profit target reached"
        ELSE IF FracLE(Frac(diff, entry), Frac(-3, 4))
        THEN "75% stop loss hit"
        ELSE IF DaysToExpiry(position.symbol) # -1000
                /\ DaysToExpiry(position.symbol) <= DTE_THRESHOLD
        THEN "21 DTE threshold reached"
        ELSE IF IsEarningsBlackout(position.symbol)
        THEN "Earnings within 2 days"
        ELSE ""

StoredPnl(position) ==
    Frac(position.current_price - position.entry_price, position.entry_price)

HasStoredPrices(position) ==
    position.current_price # 0 /\ position.entry_price # 0

\* momentum scalping branch
MomentumExit(position, now) ==
    IF now >= MOMENTUM_FORCE_CLOSE
    THEN "11:30am force close"
    ELSE IF now >= FINAL_FORCE_CLOSE
    THEN "3:50pm force close"
    ELSE IF HasStoredPrices(position) /\ FracLE(Frac(1, 2), StoredPnl(position))
    THEN "50% profit target reached"
    ELSE IF HasStoredPrices(position) /\ FracLE(StoredPnl(position), Frac(-1, 2))
    THEN "50% stop loss hit"
    ELSE ""

\* as if every leg counted positive
LegValue_unsigned(leg, quotes) == quotes[leg.symbol] * leg.quantity * 100

\* sell legs count negative, buy legs positive
LegValue(leg, quotes) ==
    IF leg.side = "sell"
    THEN -(quotes[leg.symbol] * leg.quantity * 100)
    ELSE quotes[leg.symbol] * leg.quantity * 100

RECURSIVE SumLegValues(_, _, _)
SumLegValues(legs, k, quotes) ==
    IF k > Len(legs) THEN 0
    ELSE LegValue(legs[k], quotes) + SumLegValues(legs, k + 1, quotes)

\* strike of the last sold leg of the given type, 0 if there is none
RECURSIVE ShortStrike(_, _, _)
ShortStrike(legs, k, optionType) ==
    IF k = 0 THEN 0
    ELSE IF legs[k].side = "sell" /\ legs[k].option_type = optionType
         THEN legs[k].strike
         ELSE ShortStrike(legs, k - 1, optionType)

\* breach detection with the 2% buffer; prices in cents, strikes in dollars
BreachExit(position, quotes) ==
    LET und == quotes[Underlying(position.legs[1].symbol)]
        call == ShortStrike(position.legs, Len(position.legs), "call")
        put == ShortStrike(position.legs, Len(position.legs), "put")
    IN  IF und = 0 THEN ""
        ELSE IF call # 0 /\ FracLE(Frac(100 * call - und, und), Frac(2, 100))
        THEN "Price breached call strike"
        ELSE IF put # 0 /\ FracLE(Frac(und - 100 * put, und), Frac(2, 100))
        THEN "Price breached put strike"
        ELSE ""

\* rules of the iron condor once the legs are priced
CondorRules(position, quotes, now) ==
    LET value == Abs(SumLegValues(position.legs, 1, quotes))
        credit == position.entry_price * position.quantity * 100
        pnl == credit - value
    IN  IF (IF credit > 0 THEN FracLE(Frac(1, 2), Frac(pnl, credit)) ELSE FALSE)
        THEN "50% profit target reached"
        ELSE IF pnl <= -(credit * 2)
        THEN "2x credit stop loss hit"
        ELSE IF now >= FINAL_FORCE_CLOSE
        THEN "3:50pm force close"
        ELSE BreachExit(position, quotes)

\* as if a leg without a quote were counted as worth nothing
IronCondorExit_partial(position, quotes, now) ==
    IF Len(position.legs) < 4 THEN "" ELSE CondorRules(position, quotes, now)

\* iron condor branch: a position without its four legs is skipped, a
\* missing leg quote ends the evaluation
IronCondorExit(position, quotes, now) ==
    IF Len(position.legs) < 4
    THEN ""
    ELSE IF \E k \in 1..Len(position.legs) : quotes[position.legs[k].symbol] = 0
    THEN ""
    ELSE CondorRules(position, quotes, now)

\* hasattr(position, 'signal_data') and position.signal_data
HasSignalData(position) ==
    "signal_data" \in DOMAIN position /\ position.signal_data.direction # ""

\* price re-entered the opening range; range bounds of 0 stand for None
RangeInvalidated(position, und) ==
    /\ HasSignalData(position)
    /\ position.signal_data.range_high # 0 /\ position.signal_data.range_low # 0
    /\ \/ position.signal_data.direction = "BULLISH"
          /\ und <= position.signal_data.range_high
       \/ position.signal_data.direction = "BEARISH"
          /\ und >= position.signal_data.range_low

TargetReached(position, und) ==
    /\ HasSignalData(position)
    /\ position.signal_data.target_price # 0
    /\ \/ position.signal_data.direction = "BULLISH"
          /\ und >= position.signal_data.target_price
       \/ position.signal_data.direction = "BEARISH"
          /\ und <= position.signal_data.target_price

\* opening range breakout branch: the range and target rules apply only to
\* an object that has a signal_data attribute, which Position has not
OrbExit(position, quotes, now) ==
    IF quotes[Underlying(position.symbol)] = 0
    THEN ""
    ELSE IF RangeInvalidated(position, quotes[Underlying(position.symbol)])
    THEN "Range invalidation"
    ELSE IF HasStoredPrices(position) /\ FracLE(Frac(1, 2), StoredPnl(position))
    THEN "50% profit target reached"
    ELSE IF HasStoredPrices(position) /\ FracLE(StoredPnl(position), Frac(-2, 5))
    THEN "40% stop loss hit"
    ELSE IF TargetReached(position, quotes[Underlying(position.symbol)])
    THEN "Target price reached"
    ELSE IF now >= ORB_FORCE_CLOSE
    THEN "3:00pm force close"
    ELSE ""

\* the branch the strategy name selects
StrategyBranch(strategy) ==
    CASE strategy \in {"0DTE Momentum Scalping", "momentum_scalping"} -> "momentum"
      [] strategy \in {"iron_condor"} -> "condor"
      [] strategy \in {"OPENING_RANGE_BREAKOUT"} -> "orb"
      [] OTHER -> "default"

\* the symbols whose quote the branch of a position asks for first
QuotesRead(position) ==
    CASE StrategyBranch(position.strategy) = "momentum" -> {}
      [] StrategyBranch(position.strategy) = "condor" ->
            {position.legs[k].symbol : k \in 1..Len(position.legs)}
      [] StrategyBranch(position.strategy) = "orb" -> {Underlying(position.symbol)}
      [] OTHER -> {position.symbol}

\* check_strategy_specific_exit: "" stands for None
CheckStrategySpecificExit(position, quotes, now) ==
    CASE StrategyBranch(position.strategy) = "momentum" ->
            MomentumExit(position, now)
      [] StrategyBranch(position.strategy) = "condor" ->
            IronCondorExit(position, quotes, now)
      [] StrategyBranch(position.strategy) = "orb" ->
            OrbExit(position, quotes, now)
      [] OTHER -> CheckExitConditions(position, quotes)

----------------------------------------------------------------------------
(* Handlers.  Every handler is a coroutine on the one event loop and none  *)
(* of them awaits anything but other coroutines of this program, whose     *)
(* I/O is blocking; the only point where the loop changes hands is the     *)
(* monitor's asyncio.sleep.  job names the handler that holds the loop.    *)

\* as if the awaits inside close_position handed the loop to other handlers
Idle_yielding == job.owner = "none" \/ job.stage \in {"quote", "submit", "record"}

\* the event loop is free: no handler is between its first and last statement
Idle == job.owner = "none"

CurrentPosition == job.list[job.idx]

\* the handler goes on with the next position of its list, or returns
NextIndex_abort(idx, outcome) ==
    IF outcome \in {"no_data", "no_quote", "close_failed"}
    THEN Len(job.list) + 1
    ELSE idx + 1

\* for position in positions: the loop body catches every failure
NextIndex(idx, outcome) == idx + 1

\* outcomes that are failures: a quote was missing or the order was refused
Failures == {"no_data", "no_quote", "close_failed"}

FirstStage(owner) == IF owner = "monitor" THEN "check" ELSE "quote"

Advance(outcome) ==
    LET next == NextIndex(job.idx, outcome)
    IN  IF next <= Len(job.list)
        THEN /\ job' = [job EXCEPT !.idx = next, !.stage = FirstStage(job.owner),
                                   !.reason = "",
                                   !.failed = @ \/ outcome \in Failures]
             /\ UNCHANGED monitor
        ELSE /\ job' = NoJob
             /\ monitor' = IF job.owner = "monitor" THEN "sleeping" ELSE monitor

\* monitor_positions wakes from asyncio.sleep(60) and fetches the list
MonitorWake ==
    /\ monitor = "sleeping" /\ Idle
    /\ \E ok \in BOOLEAN :
          LET positions == GetOpenPositions(store, ok)
          IN  IF positions = <<>>
              THEN UNCHANGED <<monitor, job>>
              ELSE /\ monitor' = "running"
                   /\ job' = [owner |-> "monitor", list |-> positions, idx |-> 1,
                              stage |-> "check", reason |-> "", failed |-> FALSE]
    /\ UNCHANGED <<store, tradeCount, clock, optionMid, cancelled>>
    /\ UNCHANGED <<riskVars, evalVars, greekVars, stratVars, orderVars>>

\* exit_reason = await check_strategy_specific_exit(position, position.strategy)
MonitorCheck ==
    /\ job.owner = "monitor" /\ job.stage = "check"
    /\ \E avail \in SUBSET {"SPY_OPT", "SPY"} :
          LET quotes == Quotes(avail, optionMid)
              reason == CheckStrategySpecificExit(CurrentPosition, quotes, clock)
          IN  IF reason = ""
              THEN Advance(IF \E sym \in QuotesRead(CurrentPosition) : quotes[sym] = 0
                           THEN "no_data" ELSE "no_exit")
              ELSE /\ job' = [job EXCEPT !.stage = "quote", !.reason = reason]
                   /\ UNCHANGED monitor
    /\ UNCHANGED <<store, tradeCount, clock, optionMid, cancelled>>
    /\ UNCHANGED <<riskVars, evalVars, greekVars, stratVars, orderVars>>

\* close_position, first part: the quote for the limit price
CloseQuote ==
    /\ job.owner # "none" /\ job.stage = "quote"
    /\ \E avail \in SUBSET {CurrentPosition.symbol} :
          IF Quotes(avail, optionMid)[CurrentPosition.symbol] = 0
          THEN Advance("no_quote")
          ELSE /\ job' = [job EXCEPT !.stage = "submit"]
               /\ UNCHANGED monitor
    /\ UNCHANGED <<store, tradeCount, clock, optionMid, cancelled>>
    /\ UNCHANGED <<riskVars, evalVars, greekVars, stratVars, orderVars>>

\* place_limit_order for the close signal: submit, then log the trade
CloseSubmit ==
    /\ job.owner # "none" /\ job.stage = "submit"
    /\ \E accepted \in BOOLEAN, logOk \in BOOLEAN :
          IF accepted
          THEN /\ tradeCount' = TradesAfter(tradeCount, LogTrade(tradeCount, logOk))
               /\ job' = [job EXCEPT !.stage = "record"]
               /\ UNCHANGED monitor
          ELSE /\ Advance("close_failed")
               /\ UNCHANGED tradeCount
    /\ UNCHANGED <<store, clock, optionMid, cancelled>>
    /\ UNCHANGED <<riskVars, evalVars, greekVars, stratVars, orderVars>>

\* close_position, after a successful order: log the trade again, mark the
\* position closed, return the successful result
CloseRecord ==
    /\ job.owner # "none" /\ job.stage = "record"
    /\ \E logOk \in BOOLEAN, updateOk \in BOOLEAN :
          LET tradeId == LogTrade(tradeCount, logOk)
          IN  /\ tradeCount' = TradesAfter(tradeCount, tradeId)
              /\ store' = UpdatePositionStatus(store, CurrentPosition.id, "closed",
                              tradeId, clock, "Automated exit", updateOk)
    /\ Advance("closed")
    /\ UNCHANGED <<clock, optionMid, cancelled>>
    /\ UNCHANGED <<riskVars, evalVars, greekVars, stratVars, orderVars>>

\* POST /api/testing/close-position
ManualClosePosition ==
    /\ Idle
    /\ \E id \in 1..MaxPositions, ok \in BOOLEAN :
          LET positions == GetOpenPositions(store, ok)
              found == SelectSeq(positions, LAMBDA p : p.id = id)
          IN  /\ found # <<>>
              /\ job' = [owner |-> "manual", list |-> <<found[1]>>, idx |-> 1,
                         stage |-> "quote", reason |-> "", failed |-> FALSE]
    /\ UNCHANGED <<store, tradeCount, clock, optionMid, monitor, cancelled>>
    /\ UNCHANGED <<riskVars, evalVars, greekVars, stratVars, orderVars>>

\* POST /api/testing/force-exit-all
ForceExitAllPositions ==
    /\ Idle
    /\ \E ok \in BOOLEAN :
          LET positions == GetOpenPositions(store, ok)
          IN  /\ positions # <<>>
              /\ job' = [owner |-> "force", list |-> positions, idx |-> 1,
                         stage |-> "quote", reason |-> "", failed |-> FALSE]
    /\ UNCHANGED <<store, tradeCount, clock, optionMid, monitor, cancelled>>
    /\ UNCHANGED <<riskVars, evalVars, greekVars, stratVars, orderVars>>

\* POST /api/execution/order with an approved opening signal:
\* place_limit_order logs the trade and calls create_position, whose
\* failure it does not notice
OpenPosition ==
    /\ Idle
    /\ Len(store) < MaxPositions
    /\ \E kind \in SingleLegKinds, logOk, createOk \in BOOLEAN :
          /\ tradeCount' = TradesAfter(tradeCount, LogTrade(tradeCount, logOk))
          /\ store' = IF createOk THEN Append(store, NewRow(kind)) ELSE store
    /\ UNCHANGED <<clock, optionMid, monitor, cancelled, job>>
    /\ UNCHANGED <<riskVars, evalVars, greekVars, stratVars, orderVars>>

\* POST /api/execution/order/multi-leg: place_multi_leg_order creates the
\* position only when the trade was logged, and the creation may fail
OpenMultiLegPosition ==
    /\ Idle
    /\ Len(store) < MaxPositions
    /\ \E logOk, createOk \in BOOLEAN :
          LET trade_id == LogTrade(tradeCount, logOk)
          IN  /\ tradeCount' = TradesAfter(tradeCount, trade_id)
              /\ store' = IF trade_id # 0 /\ createOk
                          THEN Append(store, NewMultiLegRow) ELSE store
    /\ UNCHANGED <<clock, optionMid, monitor, cancelled, job>>
    /\ UNCHANGED <<riskVars, evalVars, greekVars, stratVars, orderVars>>

\* as if CancelledError could reach the monitor anywhere in its cycle
Shutdown_midcycle ==
    /\ monitor \in {"sleeping", "running"}
    /\ cancelled' = TRUE
    /\ monitor' = "stopped"
    /\ job' = IF job.owner = "monitor" THEN NoJob ELSE job
    /\ UNCHANGED <<store, tradeCount, clock, optionMid>>
    /\ UNCHANGED <<riskVars, evalVars, greekVars, stratVars, orderVars>>

\* lifespan shutdown: monitor_task.cancel() reaches the task at its sleep
Shutdown ==
    /\ Idle /\ monitor = "sleeping"
    /\ cancelled' = TRUE
    /\ monitor' = "stopped"
    /\ UNCHANGED <<store, tradeCount, clock, optionMid, job>>
    /\ UNCHANGED <<riskVars, evalVars, greekVars, stratVars, orderVars>>

\* time passes
ClockAdvance ==
    /\ \E t \in ClockValues : t > clock /\ clock' = t
    /\ UNCHANGED <<store, tradeCount, optionMid, monitor, cancelled, job>>
    /\ UNCHANGED <<riskVars, evalVars, greekVars, stratVars, orderVars>>

\* a new tick of the traded option arrives
QuoteUpdate ==
    /\ \E m \in OptionMidValues : m # optionMid /\ optionMid' = m
    /\ UNCHANGED <<store, tradeCount, clock, monitor, cancelled, job>>
    /\ UNCHANGED <<riskVars, evalVars, greekVars, stratVars, orderVars>>

Init == RiskIdle /\ LifeIdle /\ EvalIdle /\ GreeksIdle /\ StratIdle /\ OrderIdle

Next ==
    \/ MonitorWake
    \/ MonitorCheck
    \/ CloseQuote
    \/ CloseSubmit
    \/ CloseRecord
    \/ ManualClosePosition
    \/ ForceExitAllPositions
    \/ OpenPosition
    \/ OpenMultiLegPosition
    \/ Shutdown
    \/ ClockAdvance
    \/ QuoteUpdate

Spec == Init /\ [][Next]_vars

----------------------------------------------------------------------------
(* Properties of the position lifecycle, checked under Spec *)

Rows == DOMAIN store

\* C7: once the stored status of a position is Closed, no step changes its
\* status, closedAt, exitReason or exit trade id (or any other column).
C7_ClosedIsTerminal ==
    [][\A i \in Rows : store[i].status = "closed" => store'[i] = store[i]]_vars

\* a position was closed, and a close path closed another one later
C7_Witness ==
    \E i, j \in Rows :
        /\ store[i].status = "closed" /\ store[j].status = "closed"
        /\ store[i].closed_at < store[j].closed_at

\* the step in which close_position returns its successful result
CloseReportsSuccess == job.stage = "record" /\ job' # job

\* C8: when the evaluator returned reason R and the monitor's close reports
\* success, the stored position is Closed with exitReason R.
C8_ExitReasonRecorded ==
    [][(job.owner = "monitor" /\ CloseReportsSuccess)
        => /\ store'[CurrentPosition.id].status = "closed"
           /\ store'[CurrentPosition.id].exit_reason = job.reason]_vars

\* C10: a monitor cycle ends only after the last position of its list, and
\* then the monitor sleeps; positions are taken one after the other whatever
\* the outcome of the previous one; the monitor stops only when cancelled.
C10_FaultIsolation ==
    /\ [][(job.owner = "monitor" /\ job'.owner # "monitor")
            => (job.idx = Len(job.list) /\ monitor' = "sleeping")]_vars
    /\ [][(job.owner = "monitor" /\ job'.owner = "monitor" /\ job'.idx # job.idx)
            => /\ job'.idx = job.idx + 1
               /\ job'.list = job.list
               /\ job'.stage = "check"]_vars
    /\ [](monitor = "stopped" => cancelled)

\* the first position of the cycle failed and the second is being evaluated
C10_Witness ==
    /\ job.owner = "monitor" /\ job.failed
    /\ job.idx = 2 /\ job.stage = "check"

----------------------------------------------------------------------------
(* Liveness: the monitor under the scheduling the spec assumes *)

\* steps of the handler that holds the loop; a coroutine runs to its end
HandlerStep == MonitorCheck \/ CloseQuote \/ CloseSubmit \/ CloseRecord

\* the successful outcomes of the monitor's steps for the position with id i
WakeSucceeds == MonitorWake /\ monitor' = "running"
CheckSucceeds(i) ==
    MonitorCheck /\ CurrentPosition.id = i /\ job'.stage = "quote"
QuoteSucceeds(i) ==
    CloseQuote /\ CurrentPosition.id = i /\ job'.stage = "submit"
SubmitSucceeds(i) ==
    CloseSubmit /\ CurrentPosition.id = i /\ job'.stage = "record"
RecordSucceeds(i) ==
    CloseRecord /\ CurrentPosition.id = i /\ store'[i].status = "closed"

\* the sleep of the monitor ends, a running handler goes on, and a fetch or
\* an order that is tried again and again succeeds in the end
Fairness ==
    /\ WF_vars(HandlerStep)
    /\ SF_vars(WakeSucceeds)
    /\ \A i \in 1..MaxPositions :
          /\ SF_vars(CheckSucceeds(i))
          /\ SF_vars(QuoteSucceeds(i))
          /\ SF_vars(SubmitSucceeds(i))
          /\ SF_vars(RecordSucceeds(i))

FairSpec == Spec /\ Fairness

\* the stored position with id i, legs included
StoredPosition(i) == [PositionFromRow(i, store[i]) EXCEPT !.legs = store[i].legs]

\* the exit rule of the position's strategy holds on the current market
ExitConditionHolds(i) ==
    CheckStrategySpecificExit(
        StoredPosition(i), Quotes(QuotedSymbols, optionMid), clock) # ""

OpenAndDue(i) ==
    i \in Rows /\ store[i].status = "open" /\ ExitConditionHolds(i)

\* C9: an open position whose exit condition keeps holding is eventually
\* Closed, unless the monitor is cancelled; for every position kind the
\* monitor dispatches, the iron-condor spread included.
C9_EventuallyClosed ==
    \A i \in 1..MaxPositions :
        OpenAndDue(i) ~> (cancelled \/ ~OpenAndDue(i))

----------------------------------------------------------------------------
(* Concurrency of the close paths, checked under Spec *)

\* a close_position call has started and has not returned
CloseInProgress == job.owner # "none" /\ job.stage \in {"quote", "submit", "record"}

\* C11: at most one close is in progress at any moment: while a handler is
\* evaluating or closing position i, the next step belongs to the same handler
\* and the same list, and it either stays with position i, moves on to
\* position i+1 with a fresh evaluation, or ends the handler; no other close
\* path takes over in the middle.
C11_NoConcurrentClose ==
    [][(job.owner # "none" /\ job' # job)
        => \/ job' = NoJob
           \/ /\ job'.owner = job.owner
              /\ job'.list = job.list
              /\ \/ job'.idx = job.idx /\ CloseInProgress'
                 \/ job'.idx = job.idx + 1 /\ job'.stage = FirstStage(job.owner)]_vars

\* the monitor is in the middle of a close while another position is open,
\* which a manual close or force-exit-all could ask for
C11_Witness ==
    /\ job.owner = "monitor" /\ job.stage = "submit"
    /\ \E i \in Rows : i # CurrentPosition.id /\ store[i].status = "open"

\* a close of the monitor has fetched its quote or submitted its order
MonitorMidClose == job.owner = "monitor" /\ CloseInProgress

----------------------------------------------------------------------------
(* EvalSpec: check_strategy_specific_exit as a function of its position,   *)
(* the quotes get_latest_tick answers with, and the exchange clock         *)

\* option prices in cents, multiples of a quarter dollar around the entry
\* price, so that the float arithmetic of the evaluators is exact; 0: no tick
EvalMidValues == {0, 25, 50, 100, 125, 150, 175, 200, 350}
EvalEntryValues == {100, 200}
EvalStoredValues == {50, 60, 100, 125, 150}
EvalClockValues == {600, 689, 690, 899, 900, 949, 950}
EvalUnderlyingValues == {0, 57000, 59900, 60000, 63000}

\* four legs with the short strikes 612 and 560
WideCondorLegs ==
    << [symbol |-> "SPY_C612", side |-> "sell", option_type |-> "call",
        strike |-> 612, quantity |-> 1],
       [symbol |-> "SPY_C617", side |-> "buy", option_type |-> "call",
        strike |-> 617, quantity |-> 1],
       [symbol |-> "SPY_P560", side |-> "sell", option_type |-> "put",
        strike |-> 560, quantity |-> 1],
       [symbol |-> "SPY_P555", side |-> "buy", option_type |-> "put",
        strike |-> 555, quantity |-> 1] >>

\* a Position object as the evaluator receives it
EvalPosition(symbol, strategy, type, entry, stored, legs) ==
    [id |-> 1, symbol |-> symbol, strategy |-> strategy, position_type |-> type,
     quantity |-> 1, entry_price |-> entry, current_price |-> stored,
     status |-> "open", legs |-> legs]

\* the quotes of one moment: the option of the position, the underlying
\* and the four legs; every other symbol has no tick
EvalQuotes(symbol, mid, und, legMids) ==
    [s \in AllSymbols |->
        CASE s = "SPY" -> und
          [] s = symbol -> mid
          [] s = "SPY_C612" -> legMids[1]
          [] s = "SPY_C617" -> legMids[2]
          [] s = "SPY_P560" -> legMids[3]
          [] s = "SPY_P555" -> legMids[4]
          [] OTHER -> 0]

NoSignalData ==
    [direction |-> "", range_high |-> 0, range_low |-> 0, target_price |-> 0]

\* signal_data of an ORB signal as execute_orb_signal hands it on
OrbSignals ==
    { [direction |-> "BULLISH", range_high |-> 59000, range_low |-> 58800,
       target_price |-> 59300],
      [direction |-> "BEARISH", range_high |-> 59000, range_low |-> 58800,
       target_price |-> 58500] }

EvalCaseOf(position, quotes, now, recorded) ==
    [position |-> position, quotes |-> quotes, now |-> now, recorded |-> recorded]

DefaultCases ==
    { EvalCaseOf(EvalPosition(sym, "IV Mean Reversion", type, entry, entry, <<>>),
                 EvalQuotes(sym, mid, 0, <<0, 0, 0, 0>>), 600, NoSignalData) :
        sym \in {"SPY_OPT", "SPY_D21", "SPY_D22"}, type \in {"long", "short"},
        entry \in EvalEntryValues, mid \in EvalMidValues }

MomentumCases ==
    { EvalCaseOf(EvalPosition("SPY_OPT", "0DTE Momentum Scalping", "long", 100,
                              stored, <<>>),
                 EvalQuotes("SPY_OPT", 100, 0, <<0, 0, 0, 0>>), now, NoSignalData) :
        stored \in EvalStoredValues \cup {0, 149}, now \in EvalClockValues }

CondorCases ==
    { EvalCaseOf(EvalPosition("iron_condor_SPY", "iron_condor", "spread", 100, 100,
                              legs),
                 EvalQuotes("iron_condor_SPY", 0, und, <<sc, lc, sp, lp>>),
                 now, NoSignalData) :
        legs \in {WideCondorLegs, <<>>},
        sc \in {0, 25, 50, 75, 325}, lc \in {0, 25}, sp \in {0, 25, 50},
        lp \in {0, 25},
        und \in EvalUnderlyingValues, now \in {600, 949, 950} }

OrbCases ==
    { EvalCaseOf(EvalPosition("SPY_OPT", "OPENING_RANGE_BREAKOUT", "long", 100,
                              stored, <<>>),
                 EvalQuotes("SPY_OPT", 100, und, <<0, 0, 0, 0>>), now, sd) :
        stored \in EvalStoredValues, now \in {600, 899, 900},
        und \in {0, 58400, 58700, 58900, 59100, 59400}, sd \in OrbSignals }

EvalCases == DefaultCases \cup MomentumCases \cup CondorCases \cup OrbCases

\* as if a reason were handed out once only
CallEvaluator_latched(c, earlier) ==
    IF earlier # <<>> /\ earlier[1] # "" THEN ""
    ELSE CheckStrategySpecificExit(c.position, c.quotes, c.now)

\* one call; the function keeps nothing from earlier calls
CallEvaluator(c, earlier) == CheckStrategySpecificExit(c.position, c.quotes, c.now)

EvalInit ==
    /\ RiskIdle /\ LifeIdle /\ GreeksIdle /\ StratIdle /\ OrderIdle
    /\ evalCase \in EvalCases
    /\ evalResults = <<>>

\* exit_reason = await check_strategy_specific_exit(position, position.strategy)
EvaluateExit ==
    /\ Len(evalResults) < 2
    /\ evalResults' = Append(evalResults, CallEvaluator(evalCase, evalResults))
    /\ UNCHANGED <<evalCase, riskVars, lifeVars, greekVars, stratVars, orderVars>>

EvalNext == EvaluateExit

EvalSpec == EvalInit /\ [][EvalNext]_vars

----------------------------------------------------------------------------
(* Properties of the exit evaluators, checked under EvalSpec *)

Evaluated == evalResults # <<>>
EvalResult == evalResults[1]
EvalBranch == StrategyBranch(evalCase.position.strategy)

\* the quote of the evaluated position's own symbol
OwnMid == evalCase.quotes[evalCase.position.symbol]

\* numerator of pnlPct over the entry price: mid - entry for Long,
\* entry - mid for Short
OwnPnl ==
    IF evalCase.position.position_type = "long"
    THEN OwnMid - evalCase.position.entry_price
    ELSE evalCase.position.entry_price - OwnMid

\* C13: the single-leg default evaluator, for a quoted position with
\* entryPrice > 0, returns the profit reason if pnlPct >= 0.50, else the
\* stop reason if pnlPct <= -0.75, else the 21-DTE reason if the days to
\* expiry are <= 21, else the earnings reason if the blackout flag is set
\* (it never is), else none.
C13_DefaultEvaluator ==
    (Evaluated /\ EvalBranch = "default" /\ OwnMid # 0
        /\ evalCase.position.entry_price > 0)
    => EvalResult =
         IF 2 * OwnPnl >= evalCase.position.entry_price
         THEN "50% profit target reached"
         ELSE IF 4 * OwnPnl <= -3 * evalCase.position.entry_price
         THEN "75% stop loss hit"
         ELSE IF DaysToExpiry(evalCase.position.symbol) <= 21
         THEN "21 DTE threshold reached"
         ELSE ""

\* pnlPct >= 0.50 together with 21 days to expiry: the profit rule decides
C13_Witness ==
    /\ Evaluated /\ EvalBranch = "default"
    /\ evalCase.position.position_type = "short"
    /\ 2 * OwnPnl >= evalCase.position.entry_price /\ OwnMid # 0
    /\ DaysToExpiry(evalCase.position.symbol) = 21
    /\ EvalResult = "50% profit target reached"

\* the evaluated position is an iron condor that carries its four legs
CondorWithLegs == EvalBranch = "condor" /\ Len(evalCase.position.legs) = 4

LegMid(k) == evalCase.quotes[evalCase.position.legs[k].symbol]
AllLegsQuoted == \A k \in 1..4 : LegMid(k) # 0

\* entryCredit, costToClose and pnl of the evaluated condor; legs 1 and 3
\* are the sold ones
EntryCredit == evalCase.position.entry_price * evalCase.position.quantity * 100
CostToClose ==
    Abs(  LegMid(2) * evalCase.position.legs[2].quantity * 100
        + LegMid(4) * evalCase.position.legs[4].quantity * 100
        - LegMid(1) * evalCase.position.legs[1].quantity * 100
        - LegMid(3) * evalCase.position.legs[3].quantity * 100)
CondorPnl == EntryCredit - CostToClose

\* the underlying is quoted and at most 2% (of its own price) below the
\* short call strike, resp. above the short put strike; strikes in dollars,
\* prices in cents
NearShortCall ==
    /\ evalCase.quotes["SPY"] # 0
    /\ 100 * (100 * evalCase.position.legs[1].strike - evalCase.quotes["SPY"])
         <= 2 * evalCase.quotes["SPY"]
NearShortPut ==
    /\ evalCase.quotes["SPY"] # 0
    /\ 100 * (evalCase.quotes["SPY"] - 100 * evalCase.position.legs[3].strike)
         <= 2 * evalCase.quotes["SPY"]

\* C14: the iron-condor evaluator, with all leg quotes available, returns the
\* profit reason if pnl/entryCredit >= 0.50, else the stop reason if
\* pnl <= -2*entryCredit, else the force-close reason at or after 15:50, else
\* the breach reason if the underlying is within 2% of a short strike, else
\* none, with pnl = entryCredit - costToClose.
C14_IronCondorEvaluator ==
    (Evaluated /\ CondorWithLegs /\ AllLegsQuoted)
    => EvalResult =
         IF 2 * CondorPnl >= EntryCredit THEN "50% profit target reached"
         ELSE IF CondorPnl <= -2 * EntryCredit THEN "2x credit stop loss hit"
         ELSE IF evalCase.now >= 950 THEN "3:50pm force close"
         ELSE IF NearShortCall THEN "Price breached call strike"
         ELSE IF NearShortPut THEN "Price breached put strike"
         ELSE ""

\* the example: entry credit $100, cost to close $50, 50% profit reason
C14_Witness ==
    /\ Evaluated /\ CondorWithLegs /\ AllLegsQuoted
    /\ EntryCredit = 100 * 100 /\ CostToClose = 50 * 100
    /\ EvalResult = "50% profit target reached"

\* C15: if the quote of any one leg of an iron condor is unavailable, the
\* evaluator returns no exit reason, whatever the other prices and the
\* clock, and the evaluated position stays as it was.
C15_NoPartialDecision ==
    (CondorWithLegs /\ ~AllLegsQuoted)
    => /\ \A n \in 1..Len(evalResults) : evalResults[n] = ""
       /\ evalCase.position.status = "open"

\* one leg without a quote, after 15:50, the underlying at the short call
C15_Witness ==
    /\ Len(evalResults) = 2 /\ CondorWithLegs
    /\ LegMid(1) = 0 /\ LegMid(2) # 0 /\ LegMid(3) # 0 /\ LegMid(4) # 0
    /\ evalCase.now >= 950 /\ NearShortCall
    /\ evalResults[2] = ""

\* (current - entry)/entry of the stored prices, as numerator and denominator
StoredGain == evalCase.position.current_price - evalCase.position.entry_price
StoredEntry == evalCase.position.entry_price

\* C16: the momentum-scalping evaluator returns a force-close reason at every
\* time >= 11:30 whatever the P&L, and the final (15:50) force-close reason at
\* every time >= 15:50; before 11:30 it returns the profit reason if
\* (current - entry)/entry >= 0.50, the stop reason if it is <= -0.50, and
\* none otherwise.
C16_MomentumTimeBoxed ==
    (Evaluated /\ EvalBranch = "momentum")
    => EvalResult =
         IF evalCase.now >= 950 THEN "3:50pm force close"
         ELSE IF evalCase.now >= 690 THEN "11:30am force close"
         ELSE IF evalCase.position.current_price # 0
                 /\ 2 * StoredGain >= StoredEntry
         THEN "50% profit target reached"
         ELSE IF evalCase.position.current_price # 0
                 /\ 2 * StoredGain <= -StoredEntry
         THEN "50% stop loss hit"
         ELSE ""

\* the part of C16 the code meets: everything before 15:50
C16_BeforeFinalClose ==
    (Evaluated /\ EvalBranch = "momentum" /\ evalCase.now < 950)
    => EvalResult =
         IF evalCase.now >= 690 THEN "11:30am force close"
         ELSE IF evalCase.position.current_price # 0
                 /\ 2 * StoredGain >= StoredEntry
         THEN "50% profit target reached"
         ELSE IF evalCase.position.current_price # 0
                 /\ 2 * StoredGain <= -StoredEntry
         THEN "50% stop loss hit"
         ELSE ""

\* the recorded signal of the evaluated ORB position and the underlying
Recorded == evalCase.recorded
UnderlyingNow == evalCase.quotes["SPY"]

ReenteredRange ==
    \/ Recorded.direction = "BULLISH" /\ UnderlyingNow <= Recorded.range_high
    \/ Recorded.direction = "BEARISH" /\ UnderlyingNow >= Recorded.range_low

PastTarget ==
    \/ Recorded.direction = "BULLISH" /\ UnderlyingNow >= Recorded.target_price
    \/ Recorded.direction = "BEARISH" /\ UnderlyingNow <= Recorded.target_price

\* C17: the opening-range-breakout evaluator returns the first matching
\* reason in the order range invalidation, 50% profit / 40% stop on the
\* option price, target price reached, force-close at or after 15:00.
C17_OrbOrder ==
    (Evaluated /\ EvalBranch = "orb" /\ UnderlyingNow # 0)
    => EvalResult =
         IF ReenteredRange THEN "Range invalidation"
         ELSE IF 2 * StoredGain >= StoredEntry THEN "50% profit target reached"
         ELSE IF 5 * StoredGain <= -2 * StoredEntry THEN "40% stop loss hit"
         ELSE IF PastTarget THEN "Target price reached"
         ELSE IF evalCase.now >= 900 THEN "3:00pm force close"
         ELSE ""

\* the part of C17 the code meets: the option P&L rules and the 15:00 close
C17_WithoutRecordedRange ==
    (Evaluated /\ EvalBranch = "orb" /\ UnderlyingNow # 0)
    => EvalResult =
         IF 2 * StoredGain >= StoredEntry THEN "50% profit target reached"
         ELSE IF 5 * StoredGain <= -2 * StoredEntry THEN "40% stop loss hit"
         ELSE IF evalCase.now >= 900 THEN "3:00pm force close"
         ELSE ""

----------------------------------------------------------------------------
(* GreeksSpec: GreeksCalculator.  Floats are carried in thousandths; S and *)
(* K are whole dollars and T is counted in quarters of a year, so that     *)
(* sqrt(T) and log(S/K) are known for every input drawn.                   *)

SpotValues == {0, 50, 100, 200}
StrikeValues == {0, 50, 100, 200}
QuarterValues == {-4, 0, 1, 4, 16}          \* T = -1, 0, 0.25, 1, 4 years
RateValues == {0, 50}                       \* r = 0, 0.05
SigmaValues == {-500, 0, 500, 1000}         \* sigma = -0.5, 0, 0.5, 1.0

GreeksInputs ==
    [S : SpotValues, K : StrikeValues, Tq : QuarterValues, r : RateValues,
     sigma : SigmaValues]

\* quotient rounded toward zero, for a positive divisor
Quot(a, b) == IF a >= 0 THEN a \div b ELSE -((-a) \div b)

\* if T <= 0 or sigma <= 0
Degenerate(in) == in.Tq <= 0 \/ in.sigma <= 0

\* math.log(S / K) raises for K = 0 and for S / K <= 0
LogRaises(in) == in.K <= 0 \/ in.S <= 0

\* 1000 * math.log(S / K) for the ratios 1/4, 1/2, 1, 2, 4
Log(S, K) ==
    CASE S = K -> 0
      [] S = 2 * K -> 693
      [] S = 4 * K -> 1386
      [] K = 2 * S -> -693
      [] K = 4 * S -> -1386

\* 1000 * T and 1000 * math.sqrt(T)
Years(Tq) == 250 * Tq
SqrtYears(Tq) == CASE Tq = 1 -> 500 [] Tq = 4 -> 1000 [] Tq = 16 -> 2000

\* norm_cdf: (1 + erf(x / sqrt 2)) / 2, to two decimals by the polynomial
\* 0.5 + 0.1 x (4.4 - x) up to 2.2; exactly 0.5 at 0
RECURSIVE NormCdf(_)
NormCdf(x) ==
    IF x < 0 THEN 1000 - NormCdf(-x)
    ELSE IF x >= 2600 THEN 1000
    ELSE IF x > 2200 THEN 990
    ELSE 500 + (x * (4400 - x)) \div 10000

\* norm_pdf: exp(-x*x/2) / sqrt(2 pi), tabulated at the half units
NormPdf(x) ==
    LET a == (Abs(x) + 250) \div 500
    IN  CASE a = 0 -> 399 [] a = 1 -> 352 [] a = 2 -> 242 [] a = 3 -> 130
          [] a = 4 -> 54 [] a = 5 -> 18 [] a = 6 -> 4 [] OTHER -> 0

\* 1000 * math.exp(-x) for small x >= 0, by 1 - x + x*x/2
ExpNeg(x) == 1000 - x + (x * x) \div 2000

\* calculate_d1_d2 past its guard
D1(in) ==
    LET drift == Quot((in.r + (in.sigma * in.sigma) \div 2000) * Years(in.Tq), 1000)
        vol == (in.sigma * SqrtYears(in.Tq)) \div 1000
    IN  Quot((Log(in.S, in.K) + drift) * 1000, vol)

D2(in) == D1(in) - (in.sigma * SqrtYears(in.Tq)) \div 1000

\* calculate_d1_d2(...)[0]: 0.0 for a degenerate input
D1OrZero(in) == IF Degenerate(in) THEN 0 ELSE D1(in)

CalculateCallDelta(in) == NormCdf(D1OrZero(in))

\* as if the put delta had the guard of the other Greeks
CalculatePutDelta_guarded(in) ==
    IF Degenerate(in) THEN 0 ELSE NormCdf(D1OrZero(in)) - 1000

CalculatePutDelta(in) == NormCdf(D1OrZero(in)) - 1000

CalculateGamma(in) ==
    IF Degenerate(in) THEN 0
    ELSE Quot(NormPdf(D1(in)) * 1000000, in.S * in.sigma * SqrtYears(in.Tq))

CalculateVega(in) ==
    IF Degenerate(in) THEN 0
    ELSE Quot(in.S * NormPdf(D1(in)) * SqrtYears(in.Tq), 100000)

\* -S * pdf(d1) * sigma / (2 sqrt T), the first term of both thetas
DecayTerm(in) ==
    -Quot(in.S * NormPdf(D1(in)) * in.sigma, 2 * SqrtYears(in.Tq))

\* r * K * exp(-r T) * cdf(x)
CarryTerm(in, x) ==
    Quot(Quot(in.r * in.K * ExpNeg(Quot(in.r * Years(in.Tq), 1000)), 1000)
            * NormCdf(x), 1000)

CalculateCallTheta(in) ==
    IF Degenerate(in) THEN 0
    ELSE Quot(DecayTerm(in) - CarryTerm(in, D2(in)), 365)

CalculatePutTheta(in) ==
    IF Degenerate(in) THEN 0
    ELSE Quot(DecayTerm(in) + CarryTerm(in, -D2(in)), 365)

\* the six Greeks of one input; raised: the calls end in an exception
AllGreeks(in) ==
    IF ~Degenerate(in) /\ LogRaises(in)
    THEN [kind |-> "greeks", raised |-> TRUE, call_delta |-> 0, put_delta |-> 0,
          gamma |-> 0, vega |-> 0, call_theta |-> 0, put_theta |-> 0]
    ELSE [kind |-> "greeks", raised |-> FALSE,
          call_delta |-> CalculateCallDelta(in),
          put_delta |-> CalculatePutDelta(in),
          gamma |-> CalculateGamma(in), vega |-> CalculateVega(in),
          call_theta |-> CalculateCallTheta(in),
          put_theta |-> CalculatePutTheta(in)]

GreeksInit ==
    /\ RiskIdle /\ LifeIdle /\ EvalIdle /\ StratIdle /\ OrderIdle
    /\ greeksIn \in GreeksInputs
    /\ greeksOut = [kind |-> "none"]

ComputeGreeks ==
    /\ greeksOut.kind = "none"
    /\ greeksOut' = AllGreeks(greeksIn)
    /\ UNCHANGED <<greeksIn, riskVars, lifeVars, evalVars, stratVars, orderVars>>

GreeksNext == ComputeGreeks

GreeksSpec == GreeksInit /\ [][GreeksNext]_vars

Computed == greeksOut.kind = "greeks"

\* C19: for every input with T <= 0 or sigma <= 0, call delta, put delta,
\* gamma, vega, call theta and put theta are exactly 0 and none raises.
C19_DegenerateGreeksZero ==
    (Computed /\ Degenerate(greeksIn))
    => /\ ~greeksOut.raised
       /\ greeksOut.call_delta = 0 /\ greeksOut.put_delta = 0
       /\ greeksOut.gamma = 0 /\ greeksOut.vega = 0
       /\ greeksOut.call_theta = 0 /\ greeksOut.put_theta = 0

\* the part of C19 the code meets: nothing raises and the four guarded
\* Greeks are 0
C19_GuardedGreeksZero ==
    (Computed /\ Degenerate(greeksIn))
    => /\ ~greeksOut.raised
       /\ greeksOut.gamma = 0 /\ greeksOut.vega = 0
       /\ greeksOut.call_theta = 0 /\ greeksOut.put_theta = 0

\* C20: for identical inputs the put delta is the call delta minus 1, the
\* degenerate inputs included.
C20_DeltaParity ==
    (Computed /\ ~greeksOut.raised)
    => greeksOut.put_delta = greeksOut.call_delta - 1000

\* parity on a degenerate input: 0.5 and -0.5
C20_Witness ==
    /\ Computed /\ ~greeksOut.raised
    /\ Degenerate(greeksIn)
    /\ greeksOut.call_delta = 500 /\ greeksOut.put_delta = -500

----------------------------------------------------------------------------
(* StrategySpec: IronCondorStrategy (backend/strategies/iron_condor.py).   *)
(* Deltas are carried in hundredths, strikes in dollars, option prices in  *)
(* thousandths of a dollar.  None is 0 for a strike.                       *)

MaxChain == 3

TARGET_DELTA == 15
DELTA_TOLERANCE == 5
SPREAD_WIDTH == 5
MIN_CREDIT == 500

ChainStrikes == {590, 600}
ChainDeltas == {0, 10, -15, 21}
QuantityValues == {1, 2}

\* a contract of the chain; greeks = FALSE is a contract without greeks
Contracts ==
    [type : {"call", "put"}, strike : ChainStrikes,
     delta : ChainDeltas, greeks : {TRUE}]
    \cup [type : {"call", "put"}, strike : ChainStrikes,
          delta : {0}, greeks : {FALSE}]

Chains == UNION {[1..n -> Contracts] : n \in 0..MaxChain}

OfType(chain, option_type) ==
    SelectSeq(chain, LAMBDA opt : opt.type = option_type)

DeltaDiff(option, target_delta) == Abs(Abs(option.delta) - target_delta)

\* the loop of find_strike_by_delta from option i on: <<best_strike, best_delta_diff>>
RECURSIVE ScanOptions(_, _, _, _, _)
ScanOptions(options, i, target_delta, best_strike, best_delta_diff) ==
    IF i > Len(options) THEN <<best_strike, best_delta_diff>>
    ELSE IF ~options[i].greeks \/ options[i].delta = 0
    THEN ScanOptions(options, i + 1, target_delta, best_strike, best_delta_diff)
    ELSE IF DeltaDiff(options[i], target_delta) < best_delta_diff
    THEN ScanOptions(options, i + 1, target_delta, options[i].strike,
                     DeltaDiff(options[i], target_delta))
    ELSE ScanOptions(options, i + 1, target_delta, best_strike, best_delta_diff)

FindStrikeByDelta_any_type(fetch, chain, option_type, target_delta) ==
    IF fetch = "raises" \/ chain = <<>> THEN 0
    ELSE LET best == ScanOptions(chain, 1, target_delta, 0, 99900)
         IN  IF best[2] > DELTA_TOLERANCE THEN 0 ELSE best[1]

FindStrikeByDelta(fetch, chain, option_type, target_delta) ==
    IF fetch = "raises" \/ chain = <<>> THEN 0
    ELSE LET best == ScanOptions(OfType(chain, option_type), 1,
                                 target_delta, 0, 99900)
         IN  IF best[2] > DELTA_TOLERANCE THEN 0 ELSE best[1]

NoSetup == [kind |-> "none"]

BuildIronCondor(price_ok, fetch, chain, quantity) ==
    LET short_call_strike == FindStrikeByDelta(fetch, chain, "call", TARGET_DELTA)
        short_put_strike == FindStrikeByDelta(fetch, chain, "put", TARGET_DELTA)
        total_credit == MIN_CREDIT + MIN_CREDIT
    IN  IF ~price_ok \/ short_call_strike = 0 \/ short_put_strike = 0
        THEN NoSetup
        ELSE [kind |-> "setup",
              underlying_symbol |-> "SPY",
              short_call_strike |-> short_call_strike,
              long_call_strike |-> short_call_strike + SPREAD_WIDTH,
              short_put_strike |-> short_put_strike,
              long_put_strike |-> short_put_strike - SPREAD_WIDTH,
              quantity |-> quantity,
              call_spread_credit |-> MIN_CREDIT,
              put_spread_credit |-> MIN_CREDIT,
              total_credit |-> total_credit,
              max_profit |-> total_credit * quantity,
              max_loss_per_side |-> (SPREAD_WIDTH * 1000 - total_credit) * quantity]

\* the OCC symbol: root, right and the strike in thousandths
OccSymbol(symbol_base, right, strike) ==
    [root |-> symbol_base, right |-> right, strike |-> strike * 1000]

OptionLeg(setup, right, side, option_type, strike, limit_price) ==
    [symbol |-> OccSymbol(setup.underlying_symbol, right, strike),
     side |-> side, quantity |-> setup.quantity,
     option_type |-> option_type, strike |-> strike,
     limit_price |-> limit_price]

CreateMultiLegOrder(setup) ==
    [kind |-> "order",
     strategy_type |-> "iron_condor",
     legs |-> << OptionLeg(setup, "C", "sell", "call", setup.short_call_strike,
                           setup.call_spread_credit \div 2),
                 OptionLeg(setup, "C", "buy", "call", setup.long_call_strike,
                           setup.call_spread_credit \div 4),
                 OptionLeg(setup, "P", "sell", "put", setup.short_put_strike,
                           setup.put_spread_credit \div 2),
                 OptionLeg(setup, "P", "buy", "put", setup.long_put_strike,
                           setup.put_spread_credit \div 4) >>,
     net_credit |-> setup.total_credit,
     max_profit |-> setup.max_profit,
     max_loss |-> setup.max_loss_per_side * 2]

FindCases ==
    [kind : {"find"}, fetch : {"ok"}, chain : Chains,
     option_type : {"call", "put"}]
    \cup [kind : {"find"}, fetch : {"raises"}, chain : {<<>>},
          option_type : {"call", "put"}]

BuildCases ==
    [kind : {"build"}, fetch : {"ok"}, chain : Chains,
     price_ok : BOOLEAN, quantity : QuantityValues]

StrategyInit ==
    /\ stratIn \in FindCases \cup BuildCases
    /\ stratOut = [kind |-> "none"]
    /\ RiskIdle /\ LifeIdle /\ EvalIdle /\ GreeksIdle /\ OrderIdle

FindStrike ==
    /\ stratIn.kind = "find" /\ stratOut.kind = "none"
    /\ stratOut' = [kind |-> "strike",
                    strike |-> FindStrikeByDelta(stratIn.fetch, stratIn.chain,
                                                 stratIn.option_type, TARGET_DELTA)]
    /\ UNCHANGED <<stratIn, riskVars, lifeVars, evalVars, greekVars, orderVars>>

\* build_iron_condor followed by create_multi_leg_order on its setup
BuildOrder ==
    /\ stratIn.kind = "build" /\ stratOut.kind = "none"
    /\ LET setup == BuildIronCondor(stratIn.price_ok, stratIn.fetch,
                                    stratIn.chain, stratIn.quantity)
       IN  stratOut' = IF setup.kind = "none" THEN [kind |-> "failed"]
                       ELSE [kind |-> "built", setup |-> setup,
                             order |-> CreateMultiLegOrder(setup)]
    /\ UNCHANGED <<stratIn, riskVars, lifeVars, evalVars, greekVars, orderVars>>

StrategyNext == FindStrike \/ BuildOrder

StrategySpec == StrategyInit /\ [][StrategyNext]_vars

----------------------------------------------------------------------------
(* Strike selection *)

\* the contracts of the requested type that carry a delta within tolerance
Candidates(chain, option_type) ==
    {i \in 1..Len(chain) :
        /\ chain[i].type = option_type
        /\ chain[i].greeks
        /\ DeltaDiff(chain[i], TARGET_DELTA) <= DELTA_TOLERANCE}

Closest(chain, option_type) ==
    {i \in Candidates(chain, option_type) :
        \A j \in 1..Len(chain) :
            (chain[j].type = option_type /\ chain[j].greeks)
                => DeltaDiff(chain[i], TARGET_DELTA) <= DeltaDiff(chain[j], TARGET_DELTA)}

StrikeFound == stratIn.kind = "find" /\ stratOut.kind = "strike"

----------------------------------------------------------------------------
(* Setup -> order round trip *)

Built == stratIn.kind = "build" /\ stratOut.kind = "built"

RECURSIVE SignedCredit(_, _)
SignedCredit(legs, i) ==
    IF i > Len(legs) THEN 0
    ELSE (IF legs[i].side = "sell" THEN legs[i].limit_price
          ELSE 0 - legs[i].limit_price) + SignedCredit(legs, i + 1)

LegIs(leg, side, option_type, strike, quantity) ==
    /\ leg.side = side /\ leg.option_type = option_type
    /\ leg.strike = strike /\ leg.quantity = quantity

\* C22: the order built from a setup has exactly four legs - sell the short
\* call, buy the long call, sell the short put, buy the long put, each with
\* the setup's quantity and strike - and the sum of the leg limit prices,
\* positive for sell legs and negative for buy legs, equals the setup's
\* total credit.
C22_RoundTrip ==
    Built =>
        LET setup == stratOut.setup
            legs == stratOut.order.legs
        IN  /\ Len(legs) = 4
            /\ LegIs(legs[1], "sell", "call", setup.short_call_strike, setup.quantity)
            /\ LegIs(legs[2], "buy", "call", setup.long_call_strike, setup.quantity)
            /\ LegIs(legs[3], "sell", "put", setup.short_put_strike, setup.quantity)
            /\ LegIs(legs[4], "buy", "put", setup.long_put_strike, setup.quantity)
            /\ SignedCredit(legs, 1) = setup.total_credit

----------------------------------------------------------------------------
(* Strategy statistics and the risk budget (RiskSpec) *)

BreakersPassed ==
    /\ portfolio.balance # 0
    /\ ~DailyLossHit(portfolio)
    /\ ~ConsecutiveLossHit(portfolio)

\* the statistics the source hardcodes for a lookup of kind k
HardcodedStats(k) ==
    IF k = "insufficient"
    THEN [win_rate |-> 75, avg_win |-> 120, avg_loss |-> 80]
    ELSE [win_rate |-> 55, avg_win |-> 100, avg_loss |-> 50]

SameStats(a, b) ==
    a.win_rate = b.win_rate /\ a.avg_win = b.avg_win /\ a.avg_loss = b.avg_loss

\* C25: get_strategy_stats returns statistics in every case - the hardcoded
\* defaults when the store is not configured, when fewer than ten closed
\* trades exist and when the lookup raises - and approve_trade goes on to
\* the Kelly step with them: its decision is the Kelly decision on those
\* defaults, not a rejection caused by the missing history.
C25_StatsNeverFail ==
    (Decided /\ BreakersPassed
        /\ statsSource.kind \in {"unconfigured", "insufficient", "error"}) =>
        LET st == GetStrategyStats(statsSource)
            expected == HardcodedStats(statsSource.kind)
            kelly == KellyDecision(signal, portfolio, st)
        IN  /\ SameStats(st, expected)
            /\ ~NegativeKelly(KellyHalf(expected))
            /\ decision = IF kelly.raised THEN Rejected("Error") ELSE kelly
            /\ (signal.entry_price = 200 /\ signal.stop_loss = 100
                    /\ portfolio.balance = 10000)
                   => decision.approved

C25_Witness ==
    /\ Decided /\ BreakersPassed
    /\ statsSource.kind = "error"
    /\ decision.approved /\ decision.position_size = 2

\* C26: with the default statistics (win rate 0.55, average win 100,
\* average loss 50) half-Kelly exceeds the cap and the risk allocated is 5%
\* of the balance: at balance 10,000 a signal with entry 2.00 / stop 1.00
\* is approved with position size 5, and a signal with entry 10.00 / stop
\* 5.00 is approved with position size at most 1.
C26_RiskBudgetFivePercent ==
    (Decided /\ BreakersPassed
        /\ statsSource.kind = "unconfigured"
        /\ portfolio.balance = 10000) =>
        /\ (signal.entry_price = 200 /\ signal.stop_loss = 100)
               => (decision.approved /\ decision.position_size = 5)
        /\ (signal.entry_price = 1000 /\ signal.stop_loss = 500)
               => (decision.approved /\ decision.position_size <= 1)

----------------------------------------------------------------------------
(* OrderSpec: the order endpoints of backend/api/execution.py.             *)
(* execute_order serves a signal with the approval the client sends;       *)
(* execute_multi_leg_order serves a MultiLegOrder.  The account is the     *)
(* portfolio as get_current_portfolio would report it at that moment.      *)

AccountPnlValues == {0, -300}
AccountLossValues == {0, 3}

Accounts ==
    [balance : {10000}, daily_pnl : AccountPnlValues,
     consecutive_losses : AccountLossValues]

\* the setup the strategy builds on a chain with a 0.15-delta call and put
OrderSetup(quantity) ==
    BuildIronCondor(TRUE, "ok",
        << [type |-> "call", strike |-> 600, delta |-> 15, greeks |-> TRUE],
           [type |-> "put", strike |-> 590, delta |-> -15, greeks |-> TRUE] >>,
        quantity)

\* a MultiLegOrder whose leg `unpriced` (if any) carries no limit price
MultiLegOrderOf(quantity, unpriced) ==
    LET order == CreateMultiLegOrder(OrderSetup(quantity))
    IN  [order EXCEPT !.legs =
            [i \in 1..Len(order.legs) |->
                IF i = unpriced THEN [order.legs[i] EXCEPT !.limit_price = 0]
                ELSE order.legs[i]]]

MultiLegRequests ==
    {[kind |-> "multi", multi_leg |-> MultiLegOrderOf(q, u), account |-> a, next |-> 1] :
        q \in QuantityValues, u \in {0, 3}, a \in Accounts}

OpeningSignals ==
    {[signal |-> s, symbol |-> "SPY_OPT", strategy |-> "IV Mean Reversion",
      entry_price |-> 100] : s \in {"buy", "sell"}}

SingleRequests ==
    {[kind |-> "single", signal |-> sig,
      approval |-> [approved |-> ok, position_size |-> 1], account |-> a] :
        sig \in OpeningSignals, ok \in BOOLEAN, a \in Accounts}

\* side = OrderSide.BUY if signal.signal.value == "buy" else OrderSide.SELL
OrderSide(signal_type) == IF signal_type = "buy" THEN "buy" ELSE "sell"

BrokerOrder(symbol, side, qty) == [symbol |-> symbol, side |-> side, qty |-> qty]

LegOrder(leg) ==
    BrokerOrder(leg.symbol, IF leg.side = "buy" THEN "buy" ELSE "sell", leg.quantity)

OrderResponse(success) == [kind |-> "response", success |-> success]

\* legs_data and the row of create_multi_leg_position
LegsData(legs) ==
    [i \in 1..Len(legs) |->
        [symbol |-> legs[i].symbol, side |-> legs[i].side,
         option_type |-> legs[i].option_type, strike |-> legs[i].strike,
         quantity |-> legs[i].quantity]]

MultiLegRow(multi_leg) ==
    [symbol |-> "iron_condor_SPY", strategy |-> multi_leg.strategy_type,
     position_type |-> "spread", quantity |-> multi_leg.legs[1].quantity,
     entry_price |-> multi_leg.net_credit \div 10,
     current_price |-> multi_leg.net_credit \div 10,
     status |-> "open", exit_reason |-> "", exit_trade_id |-> 0,
     closed_at |-> 0, legs |-> LegsData(multi_leg.legs)]

SignalRow(sig) ==
    NewRow([symbol |-> sig.symbol, strategy |-> sig.strategy,
            position_type |-> IF sig.signal = "buy" THEN "long" ELSE "short",
            entry_price |-> sig.entry_price])

OrderInit ==
    RiskIdle /\ LifeIdle /\ EvalIdle /\ GreeksIdle /\ StratIdle /\ OrderIdle

Serving == orderReq.kind # "none" /\ orderResp.kind = "none"

OrderFrame ==
    /\ UNCHANGED <<clock, optionMid, monitor, cancelled, job>>
    /\ UNCHANGED <<riskVars, evalVars, greekVars, stratVars>>

\* a request reaches one of the two endpoints
ReceiveOrder ==
    /\ ~Serving
    /\ Len(store) < MaxPositions
    /\ orderReq' \in MultiLegRequests \cup SingleRequests
    /\ brokerOrders' = <<>>
    /\ orderResp' = [kind |-> "none"]
    /\ UNCHANGED <<store, tradeCount>>
    /\ OrderFrame

\* execute_order: the approval is checked, then place_limit_order submits
\* the order, logs the trade and calls create_position
PlaceLimitOrder ==
    /\ Serving /\ orderReq.kind = "single"
    /\ \E accepted, logOk, createOk \in BOOLEAN :
          IF orderReq.approval.approved /\ accepted
          THEN /\ brokerOrders' =
                    Append(brokerOrders,
                           BrokerOrder(orderReq.signal.symbol,
                                       OrderSide(orderReq.signal.signal),
                                       orderReq.approval.position_size))
               /\ tradeCount' = TradesAfter(tradeCount, LogTrade(tradeCount, logOk))
               /\ store' = IF createOk THEN Append(store, SignalRow(orderReq.signal))
                           ELSE store
               /\ orderResp' = OrderResponse(TRUE)
          ELSE /\ orderResp' = OrderResponse(FALSE)
               /\ UNCHANGED <<brokerOrders, tradeCount, store>>
    /\ UNCHANGED orderReq
    /\ OrderFrame

\* as if a rejected leg were skipped and the loop went on
SubmitLeg_continue ==
    /\ Serving /\ orderReq.kind = "multi"
    /\ orderReq.next <= Len(orderReq.multi_leg.legs)
    /\ LET leg == orderReq.multi_leg.legs[orderReq.next]
       IN  \E accepted \in BOOLEAN :
              /\ brokerOrders' = IF leg.limit_price # 0 /\ accepted
                                 THEN Append(brokerOrders, LegOrder(leg))
                                 ELSE brokerOrders
              /\ orderReq' = [orderReq EXCEPT !.next = @ + 1]
              /\ UNCHANGED orderResp
    /\ UNCHANGED <<store, tradeCount>>
    /\ OrderFrame

\* one turn of the loop of place_multi_leg_order: the leg needs a limit
\* price and is submitted; an exception ends the handler with success=False
SubmitLeg ==
    /\ Serving /\ orderReq.kind = "multi"
    /\ orderReq.next <= Len(orderReq.multi_leg.legs)
    /\ LET leg == orderReq.multi_leg.legs[orderReq.next]
       IN  \E accepted \in BOOLEAN :
              IF leg.limit_price # 0 /\ accepted
              THEN /\ brokerOrders' = Append(brokerOrders, LegOrder(leg))
                   /\ orderReq' = [orderReq EXCEPT !.next = @ + 1]
                   /\ UNCHANGED orderResp
              ELSE /\ orderResp' = OrderResponse(FALSE)
                   /\ UNCHANGED <<brokerOrders, orderReq>>
    /\ UNCHANGED <<store, tradeCount>>
    /\ OrderFrame

\* after the loop: the trade is logged, the position is created when the
\* trade got an id, and success is returned
RecordMultiLeg ==
    /\ Serving /\ orderReq.kind = "multi"
    /\ orderReq.next > Len(orderReq.multi_leg.legs)
    /\ \E logOk, createOk \in BOOLEAN :
          LET trade_id == LogTrade(tradeCount, logOk)
          IN  /\ tradeCount' = TradesAfter(tradeCount, trade_id)
              /\ store' = IF trade_id # 0 /\ createOk
                          THEN Append(store, MultiLegRow(orderReq.multi_leg))
                          ELSE store
    /\ orderResp' = OrderResponse(TRUE)
    /\ UNCHANGED <<orderReq, brokerOrders>>
    /\ OrderFrame

OrderNext == ReceiveOrder \/ PlaceLimitOrder \/ SubmitLeg \/ RecordMultiLeg

OrderSpec == OrderInit /\ [][OrderNext]_vars

----------------------------------------------------------------------------
(* Properties of the order endpoints *)

CircuitBreakerHit(account) ==
    DailyLossHit(account) \/ ConsecutiveLossHit(account)

\* C23: no leg of a multi-leg opening order is submitted to the broker
\* while the account's daily loss is at or beyond -3% of the balance or its
\* consecutive losses are 3 or more.
C23_MultiLegBreakers ==
    (orderReq.kind = "multi" /\ brokerOrders # <<>>)
        => ~CircuitBreakerHit(orderReq.account)

MultiLegServed == orderReq.kind = "multi"

PendingLegs == orderReq.multi_leg.legs

\* the orders of the first n legs, in list order
LegOrders(n) == [i \in 1..n |-> LegOrder(PendingLegs[i])]

RecordsUnchanged == store' = store /\ tradeCount' = tradeCount

\* C24: the legs are submitted one at a time in list order; when a leg
\* fails after earlier legs were accepted, place_multi_leg_order returns
\* success = false, submits no further leg, creates no trade and no
\* position record and leaves the accepted legs at the broker as they are.
C24_PartialFailureSurfaced ==
    /\ [](MultiLegServed =>
            /\ brokerOrders = LegOrders(orderReq.next - 1)
            /\ (orderResp = OrderResponse(FALSE)
                    => orderReq.next <= Len(PendingLegs)))
    /\ [][(MultiLegServed /\ Serving /\ orderReq.next <= Len(PendingLegs)) =>
            /\ RecordsUnchanged
            /\ \/ /\ orderResp' = OrderResponse(FALSE)
                  /\ brokerOrders' = brokerOrders
                  /\ orderReq' = orderReq
               \/ /\ orderResp' = orderResp
                  /\ orderReq'.next = orderReq.next + 1
                  /\ PendingLegs[orderReq.next].limit_price # 0]_vars
    /\ [][(MultiLegServed /\ Serving /\ ~RecordsUnchanged) =>
            /\ orderResp' = OrderResponse(TRUE)
            /\ brokerOrders' = LegOrders(Len(PendingLegs))]_vars

\* the third leg had no limit price after two legs were accepted
C24_Witness ==
    /\ MultiLegServed
    /\ orderResp = OrderResponse(FALSE)
    /\ Len(brokerOrders) = 2
    /\ PendingLegs[3].limit_price = 0
    /\ store = <<>> /\ tradeCount = 0

\* C29: whenever an order endpoint reports success for an opening order -
\* place_limit_order for a BUY or SELL signal, place_multi_leg_order for a
\* spread - an open position record for that order has been added to the
\* store.
C29_OpenedTradeTracked ==
    [][(Serving /\ orderResp' = OrderResponse(TRUE)) =>
            /\ Len(store') = Len(store) + 1
            /\ store'[Len(store')].status = "open"]_vars

----------------------------------------------------------------------------
(* Close orders (Spec, FairSpec) *)

\* close_position: the signal type chosen from the position type
CloseSignalType(position) ==
    IF position.position_type = "long" THEN "close_long" ELSE "close_short"

\* the order place_limit_order submits for the close signal
CloseOrder(position) ==
    BrokerOrder(position.symbol, OrderSide(CloseSignalType(position)),
                position.quantity)

\* the step in which the broker accepts the close order
CloseOrderAccepted ==
    job.owner # "none" /\ job.stage = "submit" /\ job'.stage = "record"

\* C27: the close order of a long position is a SELL and that of a short
\* position a BUY, for the position's symbol and full quantity.
C27_CloseOppositeSide ==
    [][CloseOrderAccepted =>
        /\ CloseOrder(CurrentPosition).symbol = CurrentPosition.symbol
        /\ CloseOrder(CurrentPosition).qty = CurrentPosition.quantity
        /\ (CurrentPosition.position_type = "long"
                => CloseOrder(CurrentPosition).side = "sell")
        /\ (CurrentPosition.position_type = "short"
                => CloseOrder(CurrentPosition).side = "buy")]_vars

\* a close order for position i has been accepted and is being recorded
CloseAccepted(i) ==
    job.owner # "none" /\ job.stage = "record" /\ CurrentPosition.id = i

\* C28: once a close order for a position has been accepted, no later
\* monitor cycle or close request gets another one accepted for it, also
\* when the update of the row to closed failed.
C28_AtMostOneCloseOrder ==
    [](\A i \in 1..MaxPositions :
          CloseAccepted(i) => [](~CloseAccepted(i) => []~CloseAccepted(i)))

\* C30: an open position stored with four legs is returned by
\* get_open_positions with those four legs.
C30_LegsReachEvaluator ==
    \A i \in 1..Len(store) :
        (store[i].status = "open" /\ Len(store[i].legs) = 4) =>
            \E k \in 1..Len(GetOpenPositions(store, TRUE)) :
                /\ GetOpenPositions(store, TRUE)[k].id = i
                /\ GetOpenPositions(store, TRUE)[k].legs = store[i].legs

====
